---- MODULE Spec2Model ----
(***************************************************************************)
(* A model of the Irish-to-English demo repository:                        *)
(*   src/src/partition_feedback.py  chunk_text, normalize_date,            *)
(*                                  build_policy_key, partition_file       *)
(*   src/app.py                     the Streamlit translation form         *)
(*   src/translate.py, src/fine_tune.py   model choice and the model cache *)
(* Strings are sequences of one-character strings, so that splitting,      *)
(* stripping, joining and str() are computed and not assumed.              *)
(***************************************************************************)
EXTENDS Integers, Sequences, FiniteSets, TLC

VARIABLES
    \* chunk_text(text, min_words, max_words), one step per loop iteration
    text, min_words, max_words, pc, sentences, si, chunks, cur, cur_words,
    ci, words, i, fixed,
    \* partition_feedback.py main / partition_file: the output tree, the
    \* run in progress, and the output files as the run found them
    files, dirs, ppc, args, rows, ri, written_files, total_chunks, result,
    runs, before,
    \* build_policy_key on one delivered row
    kpc, source, row, policy_key,
    \* app.py: st.session_state, feedback_log.txt, the message shown
    session, log, shown, saved,
    \* translate.py / fine_tune.py: the model cache, the feedback file, the
    \* fine-tuning process, the last translate_text call
    config_json, cache_model, cache_tokenizer, feedback_file, ft_pc, ft_model,
    ft_result, tunes, loaded, translations

chunkVars == <<text, min_words, max_words, pc, sentences, si, chunks, cur,
               cur_words, ci, words, i, fixed>>

partVars == <<files, dirs, ppc, args, rows, ri, written_files, total_chunks,
              result, runs, before>>

keyVars == <<kpc, source, row, policy_key>>

uiVars == <<session, log, shown, saved>>

modelVars == <<config_json, cache_model, cache_tokenizer, feedback_file, ft_pc,
               ft_model, ft_result, tunes, loaded, translations>>

vars == <<chunkVars, partVars, keyVars, uiVars, modelVars>>

(***************************************************************************)
(* Bounds of the model.                                                    *)
(***************************************************************************)
\* longest input text of chunk_text, in characters
MaxLen == 7
\* largest min_words / max_words tried
MaxWords == 2
\* smallest max_words tried (the CLI takes any int, argparse type=int)
LowWords == 0 - 1
\* the hard-split loop is cut off once it has produced this many windows;
\* a text of MaxLen characters has fewer than MaxLen words
MaxFixed == MaxLen + 1

(***************************************************************************)
(* Python string helpers.                                                  *)
(***************************************************************************)
\* the characters Python's str.isspace() / the regex \s accept
Whitespace == {" ", "\n"}

\* the characters of the class [\.\?\!] of SENT_SPLIT_RE
Terminators == {".", "?", "!"}

\* the characters input texts are made of
Chars == {"a", ".", " "}

Texts == UNION {[1..n -> Chars] : n \in 0..MaxLen}

RECURSIVE LStrip(_)
LStrip(s) ==
    IF s = <<>> THEN <<>>
    ELSE IF Head(s) \in Whitespace THEN LStrip(Tail(s)) ELSE s

RECURSIVE RStrip(_)
RStrip(s) ==
    IF s = <<>> THEN <<>>
    ELSE IF s[Len(s)] \in Whitespace THEN RStrip(SubSeq(s, 1, Len(s) - 1)) ELSE s

\* str.strip()
Strip(s) == RStrip(LStrip(s))

\* the longest prefix of s with no whitespace
RECURSIVE WordPrefix(_)
WordPrefix(s) ==
    IF s = <<>> \/ Head(s) \in Whitespace THEN <<>>
    ELSE <<Head(s)>> \o WordPrefix(Tail(s))

\* str.split(): the maximal runs of non-whitespace characters, in order
RECURSIVE Split(_)
Split(s) ==
    LET t == LStrip(s) IN
    IF t = <<>> THEN <<>>
    ELSE LET w == WordPrefix(t) IN
         <<w>> \o Split(SubSeq(t, Len(w) + 1, Len(t)))

\* sep.join(parts)
RECURSIVE Join(_, _)
Join(parts, sep) ==
    IF parts = <<>> THEN <<>>
    ELSE IF Len(parts) = 1 THEN parts[1]
    ELSE parts[1] \o sep \o Join(Tail(parts), sep)

\* len(s.split())
WordCount(s) == Len(Split(s))

\* Python's seq[lo:hi] for any integers lo, hi (0-based, negative indexes
\* count from the end, out-of-range indexes are clamped)
PySlice(s, lo, hi) ==
    LET n == Len(s)
        norm(k) == IF k < 0 THEN (IF k + n < 0 THEN 0 ELSE k + n)
                   ELSE (IF k > n THEN n ELSE k)
        a == norm(lo)
        b == norm(hi)
    IN IF a < b THEN SubSeq(s, a + 1, b) ELSE <<>>

\* SENT_SPLIT_RE.split(s): s is cut at every maximal whitespace run that
\* directly follows a terminator; the runs themselves are dropped.
\* acc is the piece being collected, prev the character before s.
RECURSIVE ReSplit(_, _, _)
ReSplit(s, acc, prev) ==
    IF s = <<>> THEN <<acc>>
    ELSE IF Head(s) \in Whitespace /\ prev \in Terminators
         THEN <<acc>> \o ReSplit(LStrip(s), <<>>, " ")
         ELSE ReSplit(Tail(s), Append(acc, Head(s)), Head(s))

SENT_SPLIT_RE_split(s) == ReSplit(s, <<>>, " ")

RECURSIVE SelectSeqNonEmpty(_)
SelectSeqNonEmpty(ss) ==
    IF ss = <<>> THEN <<>>
    ELSE IF ss[1] = <<>> THEN SelectSeqNonEmpty(Tail(ss))
    ELSE <<ss[1]>> \o SelectSeqNonEmpty(Tail(ss))

\* [s.strip() for s in SENT_SPLIT_RE.split(text) if s.strip()]
Sentences(t) ==
    LET parts == SENT_SPLIT_RE_split(t)
    IN SelectSeqNonEmpty([k \in 1..Len(parts) |-> Strip(parts[k])])

(***************************************************************************)
(* chunk_text                                                              *)
(***************************************************************************)
\* LoopBody with the flush starting an empty accumulator: the sentence that
\* did not fit is lost
LoopBodyDropsSentence(st, s, minw, maxw) ==
    LET wcount == WordCount(s) IN
    IF st.cur_words + wcount <= maxw
    THEN [chunks |-> st.chunks, cur |-> Append(st.cur, s),
          cur_words |-> st.cur_words + wcount]
    ELSE IF st.cur # <<>> /\ st.cur_words >= minw
         THEN [chunks |-> Append(st.chunks, Join(st.cur, <<" ">>)),
               cur |-> <<>>, cur_words |-> 0]
         ELSE [chunks |-> Append(st.chunks, Join(Append(st.cur, s), <<" ">>)),
               cur |-> <<>>, cur_words |-> 0]

\* LoopBody flushing whenever cur is non-empty, min_words not looked at
LoopBodyFlushesShort(st, s, minw, maxw) ==
    LET wcount == WordCount(s) IN
    IF st.cur_words + wcount <= maxw
    THEN [chunks |-> st.chunks, cur |-> Append(st.cur, s),
          cur_words |-> st.cur_words + wcount]
    ELSE IF st.cur # <<>>
         THEN [chunks |-> Append(st.chunks, Join(st.cur, <<" ">>)),
               cur |-> <<s>>, cur_words |-> wcount]
         ELSE [chunks |-> Append(st.chunks, Join(Append(st.cur, s), <<" ">>)),
               cur |-> <<>>, cur_words |-> 0]

\* one iteration of "for s in sentences" on the accumulator
\* st = [chunks, cur, cur_words]
LoopBody(st, s, minw, maxw) ==
    LET wcount == WordCount(s) IN
    IF st.cur_words + wcount <= maxw
    THEN [chunks |-> st.chunks, cur |-> Append(st.cur, s),
          cur_words |-> st.cur_words + wcount]
    ELSE IF st.cur # <<>> /\ st.cur_words >= minw
         THEN [chunks |-> Append(st.chunks, Join(st.cur, <<" ">>)),
               cur |-> <<s>>, cur_words |-> wcount]
         ELSE [chunks |-> Append(st.chunks, Join(Append(st.cur, s), <<" ">>)),
               cur |-> <<>>, cur_words |-> 0]

\* "if cur: chunks.append(' '.join(cur))" after the loop
FinalFlush(st) ==
    IF st.cur # <<>> THEN Append(st.chunks, Join(st.cur, <<" ">>)) ELSE st.chunks

\* Window one word too wide: words[i:i+max_words+1]
WindowOffByOne(ws, k, maxw) == Join(PySlice(ws, k, k + maxw + 1), <<" ">>)

\* the window the hard-split loop appends at index k
Window(ws, k, maxw) == Join(PySlice(ws, k, k + maxw), <<" ">>)

\* lines 27-32: the empty text returns [], any other text is split
Enter ==
    /\ pc = "call"
    /\ IF text = <<>>
       THEN /\ pc' = "done"
            /\ UNCHANGED sentences
       ELSE /\ pc' = "loop"
            /\ sentences' = Sentences(text)
    /\ UNCHANGED <<text, min_words, max_words, si, chunks, cur, cur_words,
                   ci, words, i, fixed>>
    /\ UNCHANGED <<partVars, keyVars, uiVars, modelVars>>

\* lines 33-49: one sentence
SentenceStep ==
    /\ pc = "loop"
    /\ si <= Len(sentences)
    /\ LET st == LoopBody([chunks |-> chunks, cur |-> cur, cur_words |-> cur_words],
                          sentences[si], min_words, max_words)
       IN /\ chunks' = st.chunks
          /\ cur' = st.cur
          /\ cur_words' = st.cur_words
    /\ si' = si + 1
    /\ UNCHANGED <<text, min_words, max_words, pc, sentences, ci, words, i, fixed>>
    /\ UNCHANGED <<partVars, keyVars, uiVars, modelVars>>

\* lines 50-53: the trailing accumulator is flushed, the final pass begins
LoopEnd ==
    /\ pc = "loop"
    /\ si > Len(sentences)
    /\ chunks' = FinalFlush([chunks |-> chunks, cur |-> cur, cur_words |-> cur_words])
    /\ pc' = "fix"
    /\ UNCHANGED <<text, min_words, max_words, sentences, si, cur, cur_words,
                   ci, words, i, fixed>>
    /\ UNCHANGED <<partVars, keyVars, uiVars, modelVars>>

\* lines 54-60: a chunk within max_words is kept, a larger one enters the
\* hard-split loop
FixStep ==
    /\ pc = "fix"
    /\ ci <= Len(chunks)
    /\ IF WordCount(chunks[ci]) <= max_words
       THEN /\ fixed' = Append(fixed, chunks[ci])
            /\ ci' = ci + 1
            /\ UNCHANGED <<pc, words, i>>
       ELSE /\ words' = Split(chunks[ci])
            /\ i' = 0
            /\ pc' = "while"
            /\ UNCHANGED <<fixed, ci>>
    /\ UNCHANGED <<text, min_words, max_words, sentences, si, chunks, cur, cur_words>>
    /\ UNCHANGED <<partVars, keyVars, uiVars, modelVars>>

\* lines 61-63: one window
WhileStep ==
    /\ pc = "while"
    /\ i < Len(words)
    /\ Len(fixed) < MaxFixed
    /\ fixed' = Append(fixed, Window(words, i, max_words))
    /\ i' = i + max_words
    /\ UNCHANGED <<text, min_words, max_words, pc, sentences, si, chunks, cur,
                   cur_words, ci, words>>
    /\ UNCHANGED <<partVars, keyVars, uiVars, modelVars>>

\* line 61 false: back to the for loop of the final pass
WhileEnd ==
    /\ pc = "while"
    /\ i >= Len(words)
    /\ ci' = ci + 1
    /\ pc' = "fix"
    /\ UNCHANGED <<text, min_words, max_words, sentences, si, chunks, cur,
                   cur_words, words, i, fixed>>
    /\ UNCHANGED <<partVars, keyVars, uiVars, modelVars>>

\* line 64
Return ==
    /\ pc = "fix"
    /\ ci > Len(chunks)
    /\ pc' = "done"
    /\ UNCHANGED <<text, min_words, max_words, sentences, si, chunks, cur,
                   cur_words, ci, words, i, fixed>>
    /\ UNCHANGED <<partVars, keyVars, uiVars, modelVars>>

ChunkNext ==
    \/ Enter
    \/ SentenceStep
    \/ LoopEnd
    \/ FixStep
    \/ WhileStep
    \/ WhileEnd
    \/ Return

(***************************************************************************)
(* chunk_text as a function, as partition_file calls it (max_words >= 1)   *)
(***************************************************************************)
RECURSIVE SentenceLoop(_, _, _, _)
SentenceLoop(ss, st, minw, maxw) ==
    IF ss = <<>> THEN st
    ELSE SentenceLoop(Tail(ss), LoopBody(st, Head(ss), minw, maxw), minw, maxw)

\* the while loop of the final pass, from index k on
RECURSIVE HardSplit(_, _, _)
HardSplit(ws, k, maxw) ==
    IF k < Len(ws) THEN <<Window(ws, k, maxw)>> \o HardSplit(ws, k + maxw, maxw)
    ELSE <<>>

RECURSIVE FinalPass(_, _)
FinalPass(cs, maxw) ==
    IF cs = <<>> THEN <<>>
    ELSE (IF WordCount(Head(cs)) <= maxw THEN <<Head(cs)>>
          ELSE HardSplit(Split(Head(cs)), 0, maxw)) \o FinalPass(Tail(cs), maxw)

ChunkText(t, minw, maxw) ==
    IF t = <<>> THEN <<>>
    ELSE FinalPass(FinalFlush(SentenceLoop(Sentences(t),
                       [chunks |-> <<>>, cur |-> <<>>, cur_words |-> 0],
                       minw, maxw)), maxw)

(***************************************************************************)
(* Rows, readers, dates, keys                                              *)
(***************************************************************************)
\* Python's None, told apart from every string
NoneV == <<"<None>">>

\* row.get(k)
Get(r, k) == IF k \in DOMAIN r THEN r[k] ELSE NoneV

\* row.get(k, d)
GetOr(r, k, d) == IF k \in DOMAIN r THEN r[k] ELSE d

\* a or b
Or(a, b) == IF a # NoneV /\ a # <<>> THEN a ELSE b

\* str(p)
Str(v) == IF v = NoneV THEN <<"N", "o", "n", "e">> ELSE v

\* csv.DictReader on one line: the header's columns in order, a column the
\* line is too short for gets restval, None
CsvRow(header, cells) ==
    [c \in {header[k] : k \in 1..Len(header)} |->
        LET k == CHOOSE j \in 1..Len(header) : header[j] = c
        IN IF k <= Len(cells) THEN cells[k] ELSE NoneV]

read_rows_from_csv(f) == [k \in 1..Len(f.lines) |-> CsvRow(f.header, f.lines[k])]

RECURSIVE NonBlank(_)
NonBlank(ls) ==
    IF ls = <<>> THEN <<>>
    ELSE IF Head(ls).blank THEN NonBlank(Tail(ls))
    ELSE <<Head(ls).obj>> \o NonBlank(Tail(ls))

\* blank lines are skipped, every other line is json.loads'ed to a dict
read_rows_from_jsonl(f) == NonBlank(f.lines)

\* A timestamp string is <<format, calendar date>>, or <<>> for "".  Format
\* "iso" is what datetime.fromisoformat accepts, "ymd" what only
\* strptime "%Y-%m-%d" accepts (2024-3-5), "us" what only
\* strptime "%m/%d/%Y %H:%M:%S" accepts, "bad" what none of them accepts.
normalize_date(ts) ==
    IF ts = <<>> THEN "unknown"
    ELSE IF ts[1] = "iso" THEN ts[2]
    ELSE IF ts[1] = "ymd" THEN ts[2]
    ELSE IF ts[1] = "us" THEN ts[2]
    ELSE "unknown"

KeyFields == <<"OMSTenantId", "PolicyLevel", "PolicyID", "PolicyPriority", "GroupID">>

build_policy_key(r) ==
    Join([k \in 1..Len(KeyFields) |-> Str(GetOr(r, KeyFields[k], <<>>))], <<"|">>)

(***************************************************************************)
(* partition_file                                                          *)
(***************************************************************************)
Unknown == <<"u", "n", "k", "n", "o", "w", "n">>

\* out_dir / date / "tenant=<tenant>"
BaseOut(date, tenant) == <<date, <<"tenant=">> \o tenant>>

\* base_out / "part-<tenant>-<date>.jsonl"
OutFile(date, tenant) ==
    Append(BaseOut(date, tenant), <<"part-">> \o tenant \o <<"-", date, ".jsonl">>)

\* ensure_dir: mkdir(parents=True, exist_ok=True)
EnsureDir(ds, path) == ds \cup {SubSeq(path, 1, n) : n \in 0..Len(path)}

\* write_jsonl opening the file in mode 'w'
WriteJsonlTruncating(fl, path, objs) ==
    [q \in DOMAIN fl \cup {path} |-> IF q = path THEN objs ELSE fl[q]]

\* write_jsonl on the file map: opened in mode 'a', one line per object; a
\* line is modelled by the object json.dumps encodes
WriteJsonl(fl, path, objs) ==
    IF path \in DOMAIN fl THEN [fl EXCEPT ![path] = @ \o objs]
    ELSE [q \in DOMAIN fl \cup {path} |-> IF q = path THEN objs ELSE fl[q]]

\* lines 135-139: the text of the row and its chunks, the raw text standing
\* in when chunking gives nothing
RowText(r, feedback_col) ==
    Or(Get(r, feedback_col), Or(Get(r, "FeedbackText"), Or(Get(r, "Comment"), <<>>)))

\* RowChunks without the raw-text fallback of lines 138-139
RowChunksNoFallback(t, minw, maxw) == ChunkText(t, minw, maxw)

RowChunks(t, minw, maxw) ==
    LET cs == ChunkText(t, minw, maxw)
    IN IF cs = <<>> THEN (IF t # <<>> THEN <<t>> ELSE <<>>) ELSE cs

RowTs(r, date_col) == Or(Get(r, date_col), Or(Get(r, "Date"), <<>>))

RowTenant(r) == Or(Get(r, "OMSTenantId"), Unknown)

\* RowObjs numbering the chunks of a row from 1: enumerate(chunks, 1)
RowObjsFromOne(r, a, cs) ==
    LET ts == Or(Get(r, a.date_col), Or(Get(r, "Date"), <<>>))
        date == normalize_date(ts)
        tenant == Or(Get(r, "OMSTenantId"), <<"u", "n", "k", "n", "o", "w", "n">>)
        key == build_policy_key(r)
        setting_name == Or(Get(r, "SettingName"), Or(Get(r, "setting"), <<>>))
    IN [k \in 1..Len(cs) |->
          [id |-> <<tenant, key, setting_name, date, k>>,
           tenant |-> tenant,
           policy_key |-> key,
           policy_level |-> Get(r, "PolicyLevel"),
           policy_id |-> Get(r, "PolicyID"),
           policy_priority |-> Get(r, "PolicyPriority"),
           group_id |-> Get(r, "GroupID"),
           setting_name |-> setting_name,
           original_ts |-> ts,
           chunk_index |-> k,
           chunk_text |-> cs[k],
           source_file |-> a.input.name]]

\* lines 146-162: the objects of one row, enumerate(chunks) from 0
RowObjs(r, a, cs) ==
    LET ts == RowTs(r, a.date_col)
        date == normalize_date(ts)
        tenant == RowTenant(r)
        key == build_policy_key(r)
        setting_name == Or(Get(r, "SettingName"), Or(Get(r, "setting"), <<>>))
    IN [k \in 1..Len(cs) |->
          [id |-> <<tenant, key, setting_name, date, k - 1>>,
           tenant |-> tenant,
           policy_key |-> key,
           policy_level |-> Get(r, "PolicyLevel"),
           policy_id |-> Get(r, "PolicyID"),
           policy_priority |-> Get(r, "PolicyPriority"),
           group_id |-> Get(r, "GroupID"),
           setting_name |-> setting_name,
           original_ts |-> ts,
           chunk_index |-> k - 1,
           chunk_text |-> cs[k],
           source_file |-> a.input.name]]

(***************************************************************************)
(* Inputs of the partitioner                                               *)
(***************************************************************************)
\* most rows of an enumerated input file
MaxRows == 2
\* most partition runs against the same out_dir
MaxRuns == 2

T1 == <<"t", "1">>
Day1 == "2024-03-05"
Day2 == "2024-03-06"

\* three sentences' worth of words: "a a a. a"
LongText == <<"a", " ", "a", " ", "a", ".", " ", "a">>

\* JSONL objects: a row of several chunks; a row for the same date and
\* tenant under the fallback columns; a row of whitespace-only text with
\* neither a date nor a tenant
JsonlCandidates ==
    { ("ts" :> <<"iso", Day1>>) @@ ("OMSTenantId" :> T1)
          @@ ("PolicyLevel" :> <<"L">>) @@ ("fb" :> LongText),
      ("Date" :> <<"us", Day1>>) @@ ("OMSTenantId" :> T1)
          @@ ("fb" :> NoneV) @@ ("Comment" :> <<"a", ".">>),
      ("ts" :> <<"bad">>) @@ ("OMSTenantId" :> <<>>) @@ ("fb" :> <<" ">>) }

JsonLine(o) == [blank |-> FALSE, obj |-> o]
BlankLine == [blank |-> TRUE, obj |-> <<>>]

CsvHeader == <<"Date", "OMSTenantId", "PolicyLevel", "PolicyID", "PolicyPriority",
               "GroupID", "SettingName", "FeedbackText">>

FullLine == <<<<"iso", Day1>>, T1, <<"L">>, <<"P">>, <<"1">>, <<"G">>, <<"s">>,
              <<"a", ".", " ", "a">>>>

\* two complete rows around a short one; a whitespace-only and an empty
\* feedback cell; a JSONL file with blank lines and a row without text
FixedInputs ==
    { [name |-> "feedback.csv", ext |-> ".csv", header |-> CsvHeader,
       lines |-> <<FullLine, <<<<"ymd", Day2>>, <<>>>>, FullLine>>],
      [name |-> "blank.csv", ext |-> ".csv", header |-> CsvHeader,
       lines |-> << <<<<"iso", Day2>>, T1, <<>>, <<>>, <<>>, <<>>, <<>>, <<" ">>>>,
                    <<<<"iso", Day2>>, T1, <<>>, <<>>, <<>>, <<>>, <<>>, <<>>>> >>],
      [name |-> "gaps.jsonl", ext |-> ".jsonl", header |-> <<>>,
       lines |-> << BlankLine,
                    JsonLine(("ts" :> <<"iso", Day2>>) @@ ("OMSTenantId" :> T1)
                             @@ ("fb" :> <<>>) @@ ("Comment" :> NoneV)),
                    JsonLine(("ts" :> <<"iso", Day2>>) @@ ("OMSTenantId" :> T1)
                             @@ ("fb" :> LongText)) >>] }

EnumeratedInputs ==
    { [name |-> "export.jsonl", ext |-> ".jsonl", header |-> <<>>, lines |-> ls] :
        ls \in UNION {[1..n -> {JsonLine(o) : o \in JsonlCandidates}] : n \in 0..MaxRows} }

\* the command lines tried: the defaults' column names with bounds 1..1 for
\* CSV, other column names with bounds 2..2 for JSONL
Invocations ==
    { [input |-> f, date_col |-> "Date", feedback_col |-> "FeedbackText",
       min_chunk_words |-> 1, max_chunk_words |-> 1] :
        f \in {g \in FixedInputs : g.ext = ".csv"} }
    \cup
    { [input |-> f, date_col |-> "ts", feedback_col |-> "fb",
       min_chunk_words |-> 2, max_chunk_words |-> 2] :
        f \in EnumeratedInputs \cup {g \in FixedInputs : g.ext # ".csv"} }

NoArgs == [input |-> [name |-> "", ext |-> "", header |-> <<>>, lines |-> <<>>],
           date_col |-> "", feedback_col |-> "",
           min_chunk_words |-> 1, max_chunk_words |-> 1]

\* the orders list(set(...)) may give
Orderings(S) ==
    {f \in [1..Cardinality(S) -> S] : \A a, b \in 1..Cardinality(S) : a # b => f[a] # f[b]}

\* main, lines 178-181: the input path does not exist
MainMissingInput ==
    /\ ppc \in {"idle", "returned"}
    /\ ppc' = "idle"
    /\ result' = [status |-> "Input file not found"]
    /\ UNCHANGED <<files, dirs, args, rows, ri, written_files, total_chunks, runs, before>>
    /\ UNCHANGED <<chunkVars, keyVars, uiVars, modelVars>>

\* main, lines 182-184, and partition_file, lines 119-128
StartRun ==
    /\ ppc \in {"idle", "returned"}
    /\ runs < MaxRuns
    /\ \E a \in Invocations :
          /\ args' = a
          /\ rows' = IF a.input.ext = ".csv" THEN read_rows_from_csv(a.input)
                     ELSE read_rows_from_jsonl(a.input)
    /\ dirs' = EnsureDir(dirs, <<>>)
    /\ written_files' = <<>>
    /\ total_chunks' = 0
    /\ ri' = 1
    /\ ppc' = "rows"
    /\ runs' = runs + 1
    /\ before' = files
    /\ UNCHANGED <<files, result>>
    /\ UNCHANGED <<chunkVars, keyVars, uiVars, modelVars>>

\* lines 129-165: one row
ProcessRow ==
    /\ ppc = "rows"
    /\ ri <= Len(rows)
    /\ LET r == rows[ri]
           date == normalize_date(RowTs(r, args.date_col))
           tenant == RowTenant(r)
           cs == RowChunks(RowText(r, args.feedback_col),
                           args.min_chunk_words, args.max_chunk_words)
           objs == RowObjs(r, args, cs)
       IN IF cs = <<>>
          THEN UNCHANGED <<files, dirs, written_files, total_chunks>>
          ELSE /\ dirs' = EnsureDir(dirs, BaseOut(date, tenant))
               /\ files' = WriteJsonl(files, OutFile(date, tenant), objs)
               /\ total_chunks' = total_chunks + Len(objs)
               /\ written_files' = Append(written_files, OutFile(date, tenant))
    /\ ri' = ri + 1
    /\ UNCHANGED <<ppc, args, rows, result, runs, before>>
    /\ UNCHANGED <<chunkVars, keyVars, uiVars, modelVars>>

\* line 166
FinishRun ==
    /\ ppc = "rows"
    /\ ri > Len(rows)
    /\ \E order \in Orderings({written_files[k] : k \in 1..Len(written_files)}) :
          result' = [status |-> "ok", files_written |-> order,
                     total_chunks |-> total_chunks]
    /\ ppc' = "returned"
    /\ UNCHANGED <<files, dirs, args, rows, ri, written_files, total_chunks, runs, before>>
    /\ UNCHANGED <<chunkVars, keyVars, uiVars, modelVars>>

PartNext ==
    \/ MainMissingInput
    \/ StartRun
    \/ ProcessRow
    \/ FinishRun

(***************************************************************************)
(* build_policy_key on a row as a reader delivers it                       *)
(***************************************************************************)
KeyFieldSet == {KeyFields[k] : k \in 1..Len(KeyFields)}

\* the values a present field is given: null (JSONL only), "", "t"
CellValues == {<<>>, <<"t">>}

\* a CSV line under the header of the five key columns, possibly short; a
\* JSONL object with any of the five keys, possibly null
KeySources ==
    { [ext |-> ".csv", header |-> KeyFields, cells |-> c, obj |-> <<>>] :
        c \in UNION {[1..n -> CellValues] : n \in 0..Len(KeyFields)} }
    \cup
    { [ext |-> ".jsonl", header |-> <<>>, cells |-> <<>>, obj |-> o] :
        o \in UNION {[S -> CellValues \cup {NoneV}] : S \in SUBSET KeyFieldSet} }

\* the reader yields the row
KeyRead ==
    /\ kpc = "file"
    /\ row' = IF source.ext = ".csv" THEN CsvRow(source.header, source.cells)
              ELSE source.obj
    /\ kpc' = "row"
    /\ UNCHANGED <<source, policy_key>>
    /\ UNCHANGED <<chunkVars, partVars, uiVars, modelVars>>

\* line 133
KeyBuild ==
    /\ kpc = "row"
    /\ policy_key' = build_policy_key(row)
    /\ kpc' = "built"
    /\ UNCHANGED <<source, row>>
    /\ UNCHANGED <<chunkVars, partVars, uiVars, modelVars>>

KeyNext ==
    \/ KeyRead
    \/ KeyBuild

(***************************************************************************)
(* app.py: the translation form                                            *)
(***************************************************************************)
\* most save_feedback calls
MaxSaved == 2

\* what the two text areas may hold at a click: nothing, blanks, one line,
\* two lines
UITexts == {<<>>, <<" ">>, <<"a">>, <<"a", "\n", "b">>}

\* what translate_text may return
Translations == {<<"x">>, <<"y">>}

IrishLabel == <<"I", "r", "i", "s", "h", ":", " ">>
TranslatedLabel == <<"T", "r", "a", "n", "s", "l", "a", "t", "e", "d", ":", " ">>
FeedbackLabel == <<"F", "e", "e", "d", "b", "a", "c", "k", ":", " ">>
Separator == <<"-", "-", "-", "-", "-">>

\* save_feedback: four writes appended to feedback_log.txt
save_feedback(lg, irish_text, translated_text, user_feedback) ==
    lg \o IrishLabel \o irish_text \o <<"\n">>
       \o TranslatedLabel \o translated_text \o <<"\n">>
       \o FeedbackLabel \o user_feedback \o <<"\n">>
       \o Separator \o <<"\n">>

\* st.session_state without key k
Pop(ss, k) == [q \in DOMAIN ss \ {k} |-> ss[q]]

\* st.session_state with key k set to v
Put(ss, k, v) == [q \in DOMAIN ss \cup {k} |-> IF q = k THEN v ELSE ss[q]]

\* lines 29-36: a click on Translate with irish_text in the text area
ClickTranslate ==
    /\ \E irish_text \in UITexts, translated_text \in Translations :
          IF Strip(irish_text) # <<>>
          THEN /\ session' = Put(Put(session, "translated_text", translated_text),
                                 "irish_text", irish_text)
               /\ shown' = "translation"
          ELSE /\ shown' = "Please enter text to translate."
               /\ UNCHANGED session
    /\ UNCHANGED <<log, saved>>
    /\ UNCHANGED <<chunkVars, partVars, keyVars, modelVars>>

\* lines 39-59: a click on Submit Feedback, which is on the page only while
\* a translation is stored, with user_feedback in the text area
ClickSubmit ==
    /\ "translated_text" \in DOMAIN session
    /\ saved < MaxSaved
    /\ \E user_feedback \in UITexts :
          IF Strip(user_feedback) # <<>>
          THEN /\ log' = save_feedback(log, session["irish_text"],
                                       session["translated_text"], user_feedback)
               /\ session' = Pop(Pop(session, "translated_text"), "irish_text")
               /\ shown' = "Thank you! Your feedback has been saved."
               /\ saved' = saved + 1
          ELSE /\ shown' = "Please provide feedback before submitting."
               /\ UNCHANGED <<session, log, saved>>
    /\ UNCHANGED <<chunkVars, partVars, keyVars, modelVars>>

UINext ==
    \/ ClickTranslate
    \/ ClickSubmit

(***************************************************************************)
(* translate.py and fine_tune.py: which model a translation loads          *)
(***************************************************************************)
\* most completed fine_tune_model runs
MaxTunes == 3
\* most translate_text calls
MaxTranslations == 3

\* load_model_and_tokenizer handing back the module-level default model
LoadsDefaultAlways(cfg, m, t) == <<"default", 0, 0>>

\* load_model_and_tokenizer: <<where from, model weights, tokenizer>>; the
\* default pretrained model is weights 0, the n-th fine-tuned model is n
load_model_and_tokenizer(cfg, m, t) ==
    IF cfg THEN <<"cache", m, t>> ELSE <<"default", 0, 0>>

\* translate_text: the model is loaded anew on every call
Translate ==
    /\ translations < MaxTranslations
    /\ loaded' = load_model_and_tokenizer(config_json, cache_model, cache_tokenizer)
    /\ translations' = translations + 1
    /\ UNCHANGED <<config_json, cache_model, cache_tokenizer, feedback_file, ft_pc,
                   ft_model, ft_result, tunes>>
    /\ UNCHANGED <<chunkVars, partVars, keyVars, uiVars>>

\* app.py's save_feedback creates the feedback file
FeedbackWritten ==
    /\ ~feedback_file
    /\ feedback_file' = TRUE
    /\ UNCHANGED <<config_json, cache_model, cache_tokenizer, ft_pc, ft_model,
                   ft_result, tunes, loaded, translations>>
    /\ UNCHANGED <<chunkVars, partVars, keyVars, uiVars>>

\* fine_tune_model, lines 16-19: no feedback file, message and return
FineTuneMissing ==
    /\ ft_pc = "idle"
    /\ ~feedback_file
    /\ ft_result' = "does not exist"
    /\ UNCHANGED <<config_json, cache_model, cache_tokenizer, feedback_file, ft_pc,
                   ft_model, tunes, loaded, translations>>
    /\ UNCHANGED <<chunkVars, partVars, keyVars, uiVars>>

\* lines 21-30: the dataset, then the cached model if there is one, else
\* the default one
FineTuneLoad ==
    /\ ft_pc = "idle"
    /\ feedback_file
    /\ tunes < MaxTunes
    /\ ft_model' = IF config_json THEN cache_model ELSE 0
    /\ ft_pc' = "loaded"
    /\ ft_result' = "running"
    /\ UNCHANGED <<config_json, cache_model, cache_tokenizer, feedback_file, tunes,
                   loaded, translations>>
    /\ UNCHANGED <<chunkVars, partVars, keyVars, uiVars>>

\* lines 46-72: trainer.train() gives new weights
FineTuneTrain ==
    /\ ft_pc = "loaded"
    /\ ft_model' = tunes + 1
    /\ ft_pc' = "trained"
    /\ UNCHANGED <<config_json, cache_model, cache_tokenizer, feedback_file,
                   ft_result, tunes, loaded, translations>>
    /\ UNCHANGED <<chunkVars, partVars, keyVars, uiVars>>

\* an exception of the libraries ends the run before anything is saved
FineTuneRaises ==
    /\ ft_pc = "loaded"
    /\ ft_pc' = "idle"
    /\ ft_result' = "raised"
    /\ UNCHANGED <<config_json, cache_model, cache_tokenizer, feedback_file,
                   ft_model, tunes, loaded, translations>>
    /\ UNCHANGED <<chunkVars, partVars, keyVars, uiVars>>

\* lines 75-76: makedirs and model.save_pretrained, which writes config.json
FineTuneSaveModel ==
    /\ ft_pc = "trained"
    /\ config_json' = TRUE
    /\ cache_model' = ft_model
    /\ ft_pc' = "model_saved"
    /\ UNCHANGED <<cache_tokenizer, feedback_file, ft_model, ft_result, tunes,
                   loaded, translations>>
    /\ UNCHANGED <<chunkVars, partVars, keyVars, uiVars>>

\* lines 77-78: tokenizer.save_pretrained, and the run is complete
FineTuneSaveTokenizer ==
    /\ ft_pc = "model_saved"
    /\ cache_tokenizer' = ft_model
    /\ tunes' = tunes + 1
    /\ ft_pc' = "idle"
    /\ ft_result' = "saved"
    /\ UNCHANGED <<config_json, cache_model, feedback_file, ft_model, loaded,
                   translations>>
    /\ UNCHANGED <<chunkVars, partVars, keyVars, uiVars>>

ModelNext ==
    \/ Translate
    \/ FeedbackWritten
    \/ FineTuneMissing
    \/ FineTuneLoad
    \/ FineTuneTrain
    \/ FineTuneRaises
    \/ FineTuneSaveModel
    \/ FineTuneSaveTokenizer

(***************************************************************************)
(* The specifications: each runs one part of the repository, the other     *)
(* parts at rest.                                                          *)
(***************************************************************************)
\* a call chunk_text(text, min_words, max_words); min_words below 1 acts as
\* 1, since a non-empty cur holds at least one word
InitChunk ==
    /\ text \in Texts
    /\ min_words \in 1..MaxWords
    /\ max_words \in LowWords..MaxWords
    /\ pc = "call"
    /\ sentences = <<>> /\ si = 1 /\ chunks = <<>> /\ cur = <<>> /\ cur_words = 0
    /\ ci = 1 /\ words = <<>> /\ i = 0 /\ fixed = <<>>
    /\ files = <<>> /\ dirs = {} /\ ppc = "idle" /\ args = NoArgs /\ rows = <<>>
    /\ ri = 1 /\ written_files = <<>> /\ total_chunks = 0
    /\ result = [status |-> "none"] /\ runs = 0 /\ before = <<>>
    /\ kpc = "idle" /\ source = [ext |-> ""] /\ row = <<>> /\ policy_key = <<>>
    /\ session = <<>> /\ log = <<>> /\ shown = "none" /\ saved = 0
    /\ config_json = FALSE /\ cache_model = 0 /\ cache_tokenizer = 0
    /\ feedback_file = FALSE /\ ft_pc = "idle" /\ ft_model = 0
    /\ ft_result = "none" /\ tunes = 0 /\ loaded = <<"none", 0, 0>>
    /\ translations = 0

\* an empty out_dir, no run yet
InitPart ==
    /\ files = <<>> /\ dirs = {} /\ ppc = "idle" /\ args = NoArgs /\ rows = <<>>
    /\ ri = 1 /\ written_files = <<>> /\ total_chunks = 0
    /\ result = [status |-> "none"] /\ runs = 0 /\ before = <<>>
    /\ text = <<>> /\ min_words = 1 /\ max_words = 1 /\ pc = "idle"
    /\ sentences = <<>> /\ si = 1 /\ chunks = <<>> /\ cur = <<>> /\ cur_words = 0
    /\ ci = 1 /\ words = <<>> /\ i = 0 /\ fixed = <<>>
    /\ kpc = "idle" /\ source = [ext |-> ""] /\ row = <<>> /\ policy_key = <<>>
    /\ session = <<>> /\ log = <<>> /\ shown = "none" /\ saved = 0
    /\ config_json = FALSE /\ cache_model = 0 /\ cache_tokenizer = 0
    /\ feedback_file = FALSE /\ ft_pc = "idle" /\ ft_model = 0
    /\ ft_result = "none" /\ tunes = 0 /\ loaded = <<"none", 0, 0>>
    /\ translations = 0

\* one line of an input file, not yet read
InitKey ==
    /\ kpc = "file" /\ source \in KeySources /\ row = <<>> /\ policy_key = <<>>
    /\ text = <<>> /\ min_words = 1 /\ max_words = 1 /\ pc = "idle"
    /\ sentences = <<>> /\ si = 1 /\ chunks = <<>> /\ cur = <<>> /\ cur_words = 0
    /\ ci = 1 /\ words = <<>> /\ i = 0 /\ fixed = <<>>
    /\ files = <<>> /\ dirs = {} /\ ppc = "idle" /\ args = NoArgs /\ rows = <<>>
    /\ ri = 1 /\ written_files = <<>> /\ total_chunks = 0
    /\ result = [status |-> "none"] /\ runs = 0 /\ before = <<>>
    /\ session = <<>> /\ log = <<>> /\ shown = "none" /\ saved = 0
    /\ config_json = FALSE /\ cache_model = 0 /\ cache_tokenizer = 0
    /\ feedback_file = FALSE /\ ft_pc = "idle" /\ ft_model = 0
    /\ ft_result = "none" /\ tunes = 0 /\ loaded = <<"none", 0, 0>>
    /\ translations = 0

\* a fresh session, an empty feedback log
InitUI ==
    /\ session = <<>> /\ log = <<>> /\ shown = "none" /\ saved = 0
    /\ text = <<>> /\ min_words = 1 /\ max_words = 1 /\ pc = "idle"
    /\ sentences = <<>> /\ si = 1 /\ chunks = <<>> /\ cur = <<>> /\ cur_words = 0
    /\ ci = 1 /\ words = <<>> /\ i = 0 /\ fixed = <<>>
    /\ files = <<>> /\ dirs = {} /\ ppc = "idle" /\ args = NoArgs /\ rows = <<>>
    /\ ri = 1 /\ written_files = <<>> /\ total_chunks = 0
    /\ result = [status |-> "none"] /\ runs = 0 /\ before = <<>>
    /\ kpc = "idle" /\ source = [ext |-> ""] /\ row = <<>> /\ policy_key = <<>>
    /\ config_json = FALSE /\ cache_model = 0 /\ cache_tokenizer = 0
    /\ feedback_file = FALSE /\ ft_pc = "idle" /\ ft_model = 0
    /\ ft_result = "none" /\ tunes = 0 /\ loaded = <<"none", 0, 0>>
    /\ translations = 0

\* no model cache, with or without a feedback file
InitModel ==
    /\ config_json = FALSE /\ cache_model = 0 /\ cache_tokenizer = 0
    /\ feedback_file \in BOOLEAN /\ ft_pc = "idle" /\ ft_model = 0
    /\ ft_result = "none" /\ tunes = 0 /\ loaded = <<"none", 0, 0>>
    /\ translations = 0
    /\ text = <<>> /\ min_words = 1 /\ max_words = 1 /\ pc = "idle"
    /\ sentences = <<>> /\ si = 1 /\ chunks = <<>> /\ cur = <<>> /\ cur_words = 0
    /\ ci = 1 /\ words = <<>> /\ i = 0 /\ fixed = <<>>
    /\ files = <<>> /\ dirs = {} /\ ppc = "idle" /\ args = NoArgs /\ rows = <<>>
    /\ ri = 1 /\ written_files = <<>> /\ total_chunks = 0
    /\ result = [status |-> "none"] /\ runs = 0 /\ before = <<>>
    /\ kpc = "idle" /\ source = [ext |-> ""] /\ row = <<>> /\ policy_key = <<>>
    /\ session = <<>> /\ log = <<>> /\ shown = "none" /\ saved = 0

SpecChunk == InitChunk /\ [][ChunkNext]_vars

SpecPart == InitPart /\ [][PartNext]_vars

SpecKey == InitKey /\ [][KeyNext]_vars

SpecUI == InitUI /\ [][UINext]_vars

SpecModel == InitModel /\ [][ModelNext]_vars

(***************************************************************************)
(* Claims about chunk_text, checked under SpecChunk.                       *)
(***************************************************************************)
\* a chunk of the list built by the sentence loop went into the hard split
HardSplitHappened == \E k \in 1..Len(chunks) : WordCount(chunks[k]) > max_words

\* C1: with max_words >= 1, every chunk chunk_text returns has at most
\* max_words words, the windows of a hard-split forced merge included.
C1_ChunksWithinMax ==
    (pc = "done" /\ max_words >= 1) =>
        \A k \in 1..Len(fixed) : WordCount(fixed[k]) <= max_words

\* a finished call that force-merged a sentence onto a non-empty
\* accumulator and hard-split the result
C1_Witness ==
    /\ pc = "done"
    /\ max_words >= 1
    /\ \E k \in 1..Len(chunks) :
          /\ WordCount(chunks[k]) > max_words
          /\ Len(Sentences(chunks[k])) >= 2

\* C2: with max_words >= 1, the chunks joined by single spaces and split on
\* whitespace give the words of the input text, in order.
C2_WordsPreserved ==
    (pc = "done" /\ max_words >= 1) =>
        Split(Join(fixed, <<" ">>)) = Split(text)

\* a finished call that accumulated, flushed and hard-split
C2_Witness ==
    /\ pc = "done"
    /\ max_words >= 1
    /\ HardSplitHappened
    /\ Len(chunks) >= 2
    /\ Len(fixed) >= 3
    /\ Len(Split(text)) >= 4

\* C8 as claimed: for 1 <= min_words <= max_words every returned chunk but
\* the last has at least min_words words.
C8_AllButLastReachMin ==
    (pc = "done" /\ 1 <= min_words /\ min_words <= max_words) =>
        \A k \in 1..(Len(fixed) - 1) : WordCount(fixed[k]) >= min_words

IsSuffix(s, t) ==
    Len(s) <= Len(t) /\ SubSeq(t, Len(t) - Len(s) + 1, Len(t)) = s

\* C8 as amended: for 1 <= min_words <= max_words every chunk the sentence
\* loop produces, other than its last, has at least min_words words; a
\* returned chunk with fewer than min_words words is the last chunk or the
\* remainder window of a hard-split chunk, which follows a window of exactly
\* max_words words.
C8_Amended ==
    (pc = "done" /\ 1 <= min_words /\ min_words <= max_words) =>
        /\ \A k \in 1..(Len(chunks) - 1) : WordCount(chunks[k]) >= min_words
        /\ \A k \in 1..(Len(fixed) - 1) :
              WordCount(fixed[k]) < min_words =>
                  /\ k > 1
                  /\ WordCount(fixed[k - 1]) = max_words
                  /\ \E c \in 1..Len(chunks) :
                        /\ WordCount(chunks[c]) > max_words
                        /\ IsSuffix(Split(fixed[k]), Split(chunks[c]))

\* a finished call whose result holds a short chunk before the last one
C8_Witness ==
    /\ pc = "done"
    /\ 1 <= min_words
    /\ min_words <= max_words
    /\ \E k \in 1..(Len(fixed) - 1) : WordCount(fixed[k]) < min_words

\* C10: the hard-split loop advances on every iteration (so it ends), for
\* every max_words the CLI accepts.
C10_HardSplitAdvances ==
    [][(pc = "while" /\ pc' = "while") => i' > i]_vars

(***************************************************************************)
(* Claims about partition_file, checked under SpecPart.                    *)
(***************************************************************************)
IsPrefix(s, t) == Len(s) <= Len(t) /\ SubSeq(t, 1, Len(s)) = s

FileContent(fl, path) == IF path \in DOMAIN fl THEN fl[path] ELSE <<>>

\* <out_dir>/<date>/tenant=<tenant>/part-<tenant>-<date>.jsonl
ClaimedFile(date, tenant) ==
    <<date, <<"tenant=">> \o tenant, <<"part-">> \o tenant \o <<"-", date, ".jsonl">>>>

\* the file a row of the run resolves to, and its chunks
TargetOf(r) == ClaimedFile(normalize_date(RowTs(r, args.date_col)), RowTenant(r))

ChunksOf(r) ==
    RowChunks(RowText(r, args.feedback_col), args.min_chunk_words, args.max_chunk_words)

\* <<chunk_index, chunk_text>> of the rows from k on that resolve to path,
\* in row order, each row counting from 0
RECURSIVE ExpectedFrom(_, _)
ExpectedFrom(k, path) ==
    IF k > Len(rows) THEN <<>>
    ELSE (IF TargetOf(rows[k]) = path
          THEN [j \in 1..Len(ChunksOf(rows[k])) |-> <<j - 1, ChunksOf(rows[k])[j]>>]
          ELSE <<>>) \o ExpectedFrom(k + 1, path)

\* what the run added to path
AddedTo(path) ==
    SubSeq(FileContent(files, path), Len(FileContent(before, path)) + 1,
           Len(FileContent(files, path)))

Occurrences(seq, x) == Cardinality({k \in 1..Len(seq) : seq[k] = x})

\* C3: when a run returns, each output file has gained the records of the
\* rows that resolve to its date and tenant, in row order, each row's
\* records indexed 0, 1, 2, ... in chunk order, and files_written lists each
\* file written exactly once and no other.
C3_OneFilePerDateTenant ==
    ppc = "returned" =>
        LET paths == DOMAIN files \cup {TargetOf(rows[k]) : k \in 1..Len(rows)}
        IN /\ \A path \in paths :
                /\ [j \in 1..Len(AddedTo(path)) |->
                      <<AddedTo(path)[j].chunk_index, AddedTo(path)[j].chunk_text>>]
                   = ExpectedFrom(1, path)
                /\ \A j \in 1..Len(AddedTo(path)) :
                      ClaimedFile(AddedTo(path)[j].id[4], AddedTo(path)[j].tenant) = path
                /\ Occurrences(result.files_written, path)
                   = IF ExpectedFrom(1, path) # <<>> THEN 1 ELSE 0
           /\ \A k \in 1..Len(result.files_written) : result.files_written[k] \in paths

\* a returned run with two rows for the same file, one of them of several
\* chunks
C3_Witness ==
    /\ ppc = "returned"
    /\ \E a, b \in 1..Len(rows) :
          /\ a < b
          /\ TargetOf(rows[a]) = TargetOf(rows[b])
          /\ Len(ChunksOf(rows[a])) >= 2
          /\ Len(ChunksOf(rows[b])) >= 1

\* C4: every step leaves every output file in place with its earlier
\* content as a prefix of its new content.
C4_AppendOnly ==
    [][\A path \in DOMAIN files :
          /\ path \in DOMAIN files'
          /\ IsPrefix(files[path], files'[path])]_vars

\* a later run has added records to a file an earlier run left behind
C4_Witness ==
    /\ ppc = "returned"
    /\ \E path \in DOMAIN before :
          /\ before[path] # <<>>
          /\ Len(files[path]) > Len(before[path])

\* the feedback text of a row is empty or absent under every alias
NoFeedbackText(r) ==
    \A c \in {args.feedback_col, "FeedbackText", "Comment"} :
        c \notin DOMAIN r \/ r[c] = NoneV \/ r[c] = <<>>

\* the row has text but chunk_text gives no chunk for it
TextWithoutChunks(r) ==
    /\ ~NoFeedbackText(r)
    /\ ChunkText(RowText(r, args.feedback_col),
                 args.min_chunk_words, args.max_chunk_words) = <<>>

RECURSIVE SplitOn(_, _, _)
SplitOn(s, sep, acc) ==
    IF s = <<>> THEN <<acc>>
    ELSE IF Head(s) = sep THEN <<acc>> \o SplitOn(Tail(s), sep, <<>>)
    ELSE SplitOn(Tail(s), sep, Append(acc, Head(s)))

\* C5: the key of a delivered row has exactly five segments, in the order
\* of the five fields; the segment of a field that is missing or has no
\* value is empty, any other segment is the field's value.
C5_MissingFieldsAreEmpty ==
    kpc = "built" =>
        LET segs == SplitOn(policy_key, "|", <<>>)
        IN /\ Len(segs) = Len(KeyFields)
           /\ \A k \in 1..Len(KeyFields) :
                 segs[k] = IF KeyFields[k] \notin DOMAIN row \/ row[KeyFields[k]] = NoneV
                           THEN <<>> ELSE row[KeyFields[k]]

(***************************************************************************)
(* Claim about the translation form, checked under SpecUI.                 *)
(***************************************************************************)
\* the lines of a text that ends with a line break
RECURSIVE LinesOf(_, _)
LinesOf(s, acc) ==
    IF s = <<>> THEN (IF acc = <<>> THEN <<>> ELSE <<acc>>)
    ELSE IF Head(s) = "\n" THEN <<acc>> \o LinesOf(Tail(s), <<>>)
    ELSE LinesOf(Tail(s), Append(acc, Head(s)))

\* C6: the log changes only by a Submit Feedback click with a stored
\* translation and non-blank feedback, which appends exactly four lines,
\* Irish, Translated, Feedback and the separator; a warning for blank input
\* or blank feedback leaves the log and the stored translation as they were.
C6_FourLineBlocks ==
    [][/\ log' # log =>
             /\ "translated_text" \in DOMAIN session
             /\ IsPrefix(log, log')
             /\ \E fb \in UITexts :
                   /\ Strip(fb) # <<>>
                   /\ LinesOf(SubSeq(log', Len(log) + 1, Len(log')), <<>>)
                      = << IrishLabel \o session["irish_text"],
                           TranslatedLabel \o session["translated_text"],
                           FeedbackLabel \o fb,
                           Separator >>
       /\ shown' \in {"Please enter text to translate.",
                      "Please provide feedback before submitting."} =>
             /\ log' = log
             /\ session' = session]_vars

(***************************************************************************)
(* Claim about the model choice, checked under SpecModel.                  *)
(***************************************************************************)
\* C7: a translate_text call loads from the cache directory exactly when
\* config.json is there at the call; once a fine_tune_model run has
\* completed, a call loads a fine-tuned model from the cache; a
\* fine_tune_model call that finds no feedback file leaves the cache
\* directory as it was.
C7_ModelChosenAtCallTime ==
    [][/\ translations' # translations =>
             /\ loaded'[1] \in {"cache", "default"}
             /\ (loaded'[1] = "cache") <=> config_json
             /\ tunes >= 1 => (loaded'[1] = "cache" /\ loaded'[2] >= 1)
       /\ (ft_result' = "does not exist" /\ ft_result # "does not exist") =>
             /\ ~feedback_file
             /\ UNCHANGED <<config_json, cache_model, cache_tokenizer>>]_vars

\* a translation from the cache after a completed run, and one from the
\* default model before any
C7_Witness ==
    /\ tunes >= 1
    /\ translations >= 1
    /\ loaded[1] = "cache"
    /\ loaded[2] >= 1

====
